---- MODULE Spec2Model ----
(***************************************************************************)
(* Name Compliance Engine of riptide: the column-name checks of            *)
(* column_name_validator.py and the filter matcher of filter_check.py,     *)
(* as operators over strings, applied by the actions of a small state      *)
(* machine whose initial states draw the candidate name from bounded sets. *)
(* A Python str is a TLA+ string; its i-th character is SubSeq(s, i, i).   *)
(***************************************************************************)
EXTENDS Integers, Sequences, FiniteSets, TLC

VARIABLES name, col_pc, report, flt_pc, filter_result,
          table, data_pc, data_report,
          columns, call

name_vars == <<name, col_pc, report, flt_pc, filter_result>>

data_vars == <<table, data_pc, data_report>>

columns_vars == <<columns, call>>

vars == <<name_vars, data_vars, columns_vars>>

(***************************************************************************)
(* Bounds of the model.                                                    *)
(***************************************************************************)
MaxTokens == 2

MaxAffixLen == 5

MaxNameLen == 51

MaxRows == 2

(***************************************************************************)
(* Python str primitives used by the checks.                               *)
(***************************************************************************)
Max(a, b) == IF a >= b THEN a ELSE b

Range(s) == {s[i] : i \in 1..Len(s)}

CharAt(s, i) == SubSeq(s, i, i)

UPPERCASE == "ABCDEFGHIJKLMNOPQRSTUVWXYZ"

LOWERCASE == "abcdefghijklmnopqrstuvwxyzé"

DIGITS == "0123456789"

UpperChars == {CharAt(UPPERCASE, i) : i \in 1..Len(UPPERCASE)}

LowerChars == {CharAt(LOWERCASE, i) : i \in 1..Len(LOWERCASE)}

DigitChars == {CharAt(DIGITS, i) : i \in 1..Len(DIGITS)}

ToLower == [c \in UpperChars |->
              CharAt(LOWERCASE, CHOOSE i \in 1..Len(UPPERCASE) : CharAt(UPPERCASE, i) = c)]

lower_char(c) == IF c \in UpperChars THEN ToLower[c] ELSE c

RECURSIVE lower(_)
lower(s) == IF s = "" THEN "" ELSE lower_char(Head(s)) \o lower(Tail(s))

char_isupper(c) == c \in UpperChars

char_isalpha(c) == c \in UpperChars \cup LowerChars

char_isalnum(c) == c \in UpperChars \cup LowerChars \cup DigitChars

isalnum(s) == s # "" /\ \A i \in 1..Len(s) : char_isalnum(CharAt(s, i))

islower(s) ==
  /\ \E i \in 1..Len(s) : CharAt(s, i) \in LowerChars
  /\ \A i \in 1..Len(s) : CharAt(s, i) \notin UpperChars

startswith(s, prefix) == Len(prefix) <= Len(s) /\ SubSeq(s, 1, Len(prefix)) = prefix

endswith(s, suffix) ==
  Len(suffix) <= Len(s) /\ SubSeq(s, Len(s) - Len(suffix) + 1, Len(s)) = suffix

\* s.find(sub) + 1: the least position where sub occurs in s, 0 when it does not
find(s, sub) ==
  LET hits == {i \in 1..(Len(s) - Len(sub) + 1) : SubSeq(s, i, i + Len(sub) - 1) = sub}
  IN IF hits = {} THEN 0 ELSE CHOOSE i \in hits : \A j \in hits : i <= j

\* sub in s
contains(s, sub) == find(s, sub) # 0

\* s.replace(old, new), old non-empty: non-overlapping occurrences, left to right
RECURSIVE replace(_, _, _)
replace(s, old, new) ==
  LET i == find(s, old)
  IN IF i = 0 THEN s
     ELSE SubSeq(s, 1, i - 1) \o new \o replace(SubSeq(s, i + Len(old), Len(s)), old, new)

\* s.split(sep), sep non-empty
RECURSIVE split(_, _)
split(s, sep) ==
  LET i == find(s, sep)
  IN IF i = 0 THEN <<s>>
     ELSE <<SubSeq(s, 1, i - 1)>> \o split(SubSeq(s, i + Len(sep), Len(s)), sep)

\* sep.join(parts)
RECURSIVE join(_, _)
join(parts, sep) ==
  IF Len(parts) = 0 THEN ""
  ELSE IF Len(parts) = 1 THEN parts[1]
  ELSE parts[1] \o sep \o join(Tail(parts), sep)

\* parts[::-1]
reversed(parts) == [i \in 1..Len(parts) |-> parts[Len(parts) + 1 - i]]

(***************************************************************************)
(* thefuzz.fuzz.ratio: the normalised indel similarity                     *)
(* 100 * 2 * LCS(a, b) / (len(a) + len(b)), rounded to the nearest integer *)
(* (ties to even); 100 for two empty strings.                              *)
(***************************************************************************)
RECURSIVE lcs_row(_, _, _, _)
lcs_row(prev, x, b, cur) ==
  LET j == Len(cur)
  IN IF j > Len(b) THEN cur
     ELSE lcs_row(prev, x, b,
                  Append(cur, IF x = CharAt(b, j) THEN prev[j] + 1
                              ELSE Max(prev[j + 1], cur[j])))

RECURSIVE lcs_rows(_, _, _)
lcs_rows(a, b, prev) ==
  IF a = "" THEN prev ELSE lcs_rows(Tail(a), b, lcs_row(prev, Head(a), b, <<0>>))

lcs(a, b) == lcs_rows(a, b, [j \in 1..(Len(b) + 1) |-> 0])[Len(b) + 1]

round_half_even(num, den) ==
  LET fl == num \div den
      r2 == 2 * (num % den)
  IN IF r2 < den THEN fl
     ELSE IF r2 > den THEN fl + 1
     ELSE IF fl % 2 = 0 THEN fl ELSE fl + 1

ratio(a, b) ==
  IF Len(a) + Len(b) = 0 THEN 100
  ELSE round_half_even(200 * lcs(a, b), Len(a) + Len(b))

(***************************************************************************)
(* Status values (status.py): a state and an optional message.  The        *)
(* optional message is None or Some(text).                                 *)
(***************************************************************************)
None == <<>>

Some(text) == <<text>>

PASS == "PASS"

WARNING == "WARNING"

FAIL == "FAIL"

State == {PASS, WARNING, FAIL}

Status(state, message) == [state |-> state, message |-> message]

\* the record of a call: the method, its arguments, and how it ended
Call(op, column_name, args, outcome, value, message) ==
  [op |-> op, column_name |-> column_name, args |-> args, outcome |-> outcome,
   value |-> value, message |-> message]

NoCall == Call("none", "", <<>>, "none", <<>>, "")

\* status == State.X, as ColumnNameReport.__post_init__ uses it
status_eq_state(status, state) == status.state = state

\* truth value of a Status object, as `not check_alphanumeric(...)` uses it
status_truthy(status) == TRUE

(***************************************************************************)
(* The lexicon.                                                            *)
(***************************************************************************)
valid_filters ==
  <<
    "FUV_GALEX", "NUV_GALEX", "u_SDSS", "g_SDSS", "r_SDSS", "i_SDSS",
    "z_SDSS", "u_VST", "g_VST", "r_VST", "i_VST", "Z_VISTA", "Y_VISTA",
    "J_VISTA", "H_VISTA", "K_VISTA", "W1_WISE", "I1_Spitzer", "I2_Spitzer",
    "W2_WISE", "I3_Spitzer", "I4_Spitzer", "W3_WISE", "W4_WISE",
    "M24_Spitzer", "M70_Spitzer", "P70_Herschel", "P100_Herschel",
    "P160_Herschel", "S250_Herschel", "S350_Herschel", "S450_JCMT",
    "S500_Herschel", "S850_JCMT", "Band_ionising_photons", "Band9_ALMA",
    "Band8_ALMA", "Band7_ALMA", "Band6_ALMA", "Band5_ALMA", "Band4_ALMA",
    "Band3_ALMA", "BandX_VLA", "BandC_VLA", "BandS_VLA", "BandL_VLA",
    "Band_610MHz", "Band_325MHz", "Band_150MHz"
  >>

NOT_ALLOWED ==
  <<
    "fred", "bob", "thing", "something", "whatever", "words",
    "blahblahblah", "abc123", "xyz"
  >>

PROTECTED_WORD_LIST ==
  <<
    [protected_word |-> "ra",
     common_words |-> <<"ascension", "r.a.", "r a", "ra_deg", "ra (deg)", "ra degrees", "right_ascension", "ra_degrees">>],
    [protected_word |-> "dec",
     common_words |-> <<"declination", "dec_deg", "dec (deg)", "dec degrees", "decl.">>],
    [protected_word |-> "vel",
     common_words |-> <<"velocity", "vel_kms", "v_los", "vlos", "v_rad", "v(km/s)", "radial velocity">>],
    [protected_word |-> "mag",
     common_words |-> <<"magnitude", "app_mag", "apparent magnitude", "m_app">>],
    [protected_word |-> "mag_abs",
     common_words |-> <<"absolute magnitude", "m_abs", "abs_mag", "Mmag", "M_abs">>],
    [protected_word |-> "err",
     common_words |-> <<"error", "uncertainty", "stddev", "std", "measurement error">>],
    [protected_word |-> "flux_density",
     common_words |-> <<"flux density", "f_nu", "fnu", "f_lambda", "flam", "fluxdens", "Snu">>],
    [protected_word |-> "flux",
     common_words |-> <<"total flux", "measured flux", "int_flux", "integrated flux", "f">>],
    [protected_word |-> "luminosity",
     common_words |-> <<"lum", "luminosity (erg/s)", "Lbol", "L_sun", "bolometric luminosity">>],
    [protected_word |-> "mass",
     common_words |-> <<"stellar mass", "M", "Msol", "mass_msun", "mstar", "Mstar", "msun">>],
    [protected_word |-> "sfr",
     common_words |-> <<"star formation rate", "SFR_msun_yr", "sfr(msun/yr)">>],
    [protected_word |-> "metallicity",
     common_words |-> <<"gas metallicity", "stellar metallicity", "metal abundance">>],
    [protected_word |-> "redshift",
     common_words |-> <<"zobs", "z_spec", "z_phot", "spectroscopic redshift", "photometric redshift", "zcos", "z_obs">>],
    [protected_word |-> "snr",
     common_words |-> <<"signal to noise", "S/N", "sn_ratio", "signal/noise", "sn">>],
    [protected_word |-> "ew",
     common_words |-> <<"equivalent width", "eq width", "EW_line", "eqw">>],
    [protected_word |-> "radius",
     common_words |-> <<"rad", "r_phys", "r_ang", "radii", "object radius", "r (arcsec)", "r (kpc)">>],
    [protected_word |-> "sersic_index",
     common_words |-> <<"n_sersic", "sersic n", "sersicn", "Sérsic index", "SersicN">>],
    [protected_word |-> "axrat",
     common_words |-> <<"axis ratio", "axial ratio", "b/a", "ellipticity", "axisratio">>],
    [protected_word |-> "ang",
     common_words |-> <<"angle", "angular measurement", "ang (deg)", "angular size", "theta", "phi">>],
    [protected_word |-> "pos_ang",
     common_words |-> <<"position angle", "pa", "posang", "P.A.", "PA(deg)", "position angle (deg)">>],
    [protected_word |-> "line_width",
     common_words |-> <<"linewidth", "line width", "FWHM", "sigma_line", "velocity width", "dispersion">>],
    [protected_word |-> "sep",
     common_words |-> <<"separation", "sep_dist", "distance between", "angular separation", "physical separation">>]
  >>

EXCEPTIONS == <<"uberID">>

MAX_COLUMN_LENGTH == 50

WARN_COLUMN_LENGTH == 25

(***************************************************************************)
(* filter_check.validate_filter_name.  The result is the tuple             *)
(* (is_valid, recommended_filter).                                         *)
(***************************************************************************)
\* variant: the lower-casing forgotten
normalize_keep_case(s) == replace(replace(s, "_", ""), "-", "")

normalize(s) == replace(replace(lower(s), "_", ""), "-", "")

\* variant: the early return of an exact match left out
exact_match_never(input_string) == FALSE

\* `input_string in valid_filters`: the early return of an exact match
exact_match(input_string) == input_string \in Range(valid_filters)

PREFIXES == <<"filter", "filt", "band">>

\* the prefix loop: the remainder after the first prefix that the lower-cased
\* input starts with and that an uppercase character follows
RECURSIVE strip_prefix(_, _)
strip_prefix(input_string, k) ==
  IF k > Len(PREFIXES) THEN input_string
  ELSE LET prefix == PREFIXES[k]
           remainder == SubSeq(input_string, Len(prefix) + 1, Len(input_string))
       IN IF /\ startswith(lower(input_string), prefix)
             /\ remainder # ""
             /\ char_isupper(Head(remainder))
          THEN remainder
          ELSE strip_prefix(input_string, k + 1)

all_parts_present(input_lower, filter_parts) ==
  \A p \in 1..Len(filter_parts) : contains(input_lower, filter_parts[p])

\* sum(c in normalized_input for c in normalized_filter)
overlap(normalized_input, normalized_filter) ==
  Cardinality({i \in 1..Len(normalized_filter) :
                 contains(normalized_input, CharAt(normalized_filter, i))})

\* length_ratio > 1.5, with length_ratio = len(normalized_input) / len(normalized_filter)
much_longer(normalized_input, normalized_filter) ==
  2 * Len(normalized_input) > 3 * Len(normalized_filter)

\* match_ratio > 0.65, with match_ratio = overlap / max(len, len)
substantial_overlap(normalized_input, normalized_filter) ==
  20 * overlap(normalized_input, normalized_filter)
    > 13 * Max(Len(normalized_input), Len(normalized_filter))

\* normalize(valid_filter) and valid_filter.lower().split("_") of every filter
normalized_filters == [k \in 1..Len(valid_filters) |-> normalize(valid_filters[k])]

filters_parts == [k \in 1..Len(valid_filters) |-> split(lower(valid_filters[k]), "_")]

\* variant: only the direct normalized match is tested, the test of the parts
\* in any order left out
filter_violation_direct_only(input_lower, normalized_input, k) ==
  normalized_input = normalized_filters[k]

\* iteration k of the loop over valid_filters: does it return (False, valid_filter)?
filter_violation(input_lower, normalized_input, k) ==
  LET normalized_filter == normalized_filters[k]
      filter_parts == filters_parts[k]
  IN \/ normalized_input = normalized_filter
     \/ /\ all_parts_present(input_lower, filter_parts)
        /\ Len(filter_parts) > 1
        /\ ~much_longer(normalized_input, normalized_filter)
        /\ substantial_overlap(normalized_input, normalized_filter)

\* the loop over valid_filters: the first filter whose iteration returns
check_each_filter(stripped_input) ==
  LET input_lower == lower(stripped_input)
      normalized_input == normalize(stripped_input)
      hits == {k \in 1..Len(valid_filters) :
                 filter_violation(input_lower, normalized_input, k)}
  IN IF hits = {} THEN <<TRUE, None>>
     ELSE <<FALSE, Some(valid_filters[CHOOSE k \in hits : \A j \in hits : k <= j])>>

\* variant: the prefix loop run a second time on what the first run left
validate_filter_name_strip_twice(input_string) ==
  IF exact_match(input_string) THEN <<TRUE, None>>
  ELSE check_each_filter(strip_prefix(strip_prefix(input_string, 1), 1))

validate_filter_name(input_string) ==
  IF exact_match(input_string) THEN <<TRUE, None>>
  ELSE check_each_filter(strip_prefix(input_string, 1))

\* filter_check.check_filter, which validate_column_name calls for the filter
\* dimension: the Status form of the tuple of validate_filter_name
check_filter(name_) ==
  LET result == validate_filter_name(name_)
  IN IF result[1] THEN Status(PASS, None) ELSE Status(FAIL, result[2])

(***************************************************************************)
(* column_name_validator: the checks.                                      *)
(***************************************************************************)
\* variant: the upper threshold taken inclusively
check_length_max_inclusive(name_) ==
  IF Len(name_) < WARN_COLUMN_LENGTH THEN Status(PASS, None)
  ELSE IF Len(name_) >= MAX_COLUMN_LENGTH THEN Status(FAIL, None)
  ELSE Status(WARNING, None)

check_length(name_) ==
  IF Len(name_) < WARN_COLUMN_LENGTH THEN Status(PASS, None)
  ELSE IF Len(name_) > MAX_COLUMN_LENGTH THEN Status(FAIL, None)
  ELSE Status(WARNING, None)

check_decimals(name_) ==
  IF ~contains(name_, ".") THEN Status(PASS, None) ELSE Status(FAIL, None)

\* the least pair of a non-empty set of loop positions <<outer, inner>>
first_pair(hits) ==
  CHOOSE h \in hits :
    \A g \in hits : h[1] < g[1] \/ (h[1] = g[1] /\ h[2] <= g[2])

\* first loop of check_allowed: the first banned word that is a substring, or None
literal_pass(name_) ==
  LET hits == {k \in 1..Len(NOT_ALLOWED) : contains(name_, NOT_ALLOWED[k])}
  IN IF hits = {} THEN None
     ELSE Some(Status(FAIL, Some(NOT_ALLOWED[CHOOSE k \in hits : \A j \in hits : k <= j])))

\* variant: the warning threshold taken as ratio >= 50
fuzzy_pass_from_50(words) ==
  LET hits == {h \in (1..Len(NOT_ALLOWED)) \X (1..Len(words)) :
                 ratio(NOT_ALLOWED[h[1]], lower(words[h[2]])) >= 50}
  IN IF hits = {} THEN Status(PASS, None)
     ELSE LET h == first_pair(hits)
          IN IF ratio(NOT_ALLOWED[h[1]], lower(words[h[2]])) > 80
             THEN Status(FAIL, Some(NOT_ALLOWED[h[1]]))
             ELSE Status(WARNING, Some(NOT_ALLOWED[h[1]]))

\* second loop of check_allowed: banned words outer, tokens inner; the first
\* pair with ratio > 50 returns, FAIL when its ratio is > 80
fuzzy_pass(words) ==
  LET hits == {h \in (1..Len(NOT_ALLOWED)) \X (1..Len(words)) :
                 ratio(NOT_ALLOWED[h[1]], lower(words[h[2]])) > 50}
  IN IF hits = {} THEN Status(PASS, None)
     ELSE LET h == first_pair(hits)
          IN IF ratio(NOT_ALLOWED[h[1]], lower(words[h[2]])) > 80
             THEN Status(FAIL, Some(NOT_ALLOWED[h[1]]))
             ELSE Status(WARNING, Some(NOT_ALLOWED[h[1]]))

\* variant: the fuzzy loop runs first, the literal loop only when it passes
check_allowed_fuzzy_first(name_) ==
  LET fuzzy == fuzzy_pass(split(name_, "_"))
      literal == literal_pass(name_)
  IN IF fuzzy.state # PASS THEN fuzzy
     ELSE IF literal # None THEN literal[1] ELSE fuzzy

check_allowed(name_) ==
  LET literal == literal_pass(name_)
  IN IF literal # None THEN literal[1] ELSE fuzzy_pass(split(name_, "_"))

\* variant: a synonym matched token by token against the tokens of the name
token_match_by_parts(word, lowered_targets) ==
  Range(split(lower(word), "_")) \subseteq lowered_targets

\* the token loop of check_protected for one synonym: some target_word of
\* name.split("_") has word.lower() == target_word.lower()
token_match(word, lowered_targets) == lower(word) \in lowered_targets

\* the positions <<entry, synonym>> of the double loop of check_protected
ProtectedPairs ==
  UNION {{<<p, w>> : w \in 1..Len(PROTECTED_WORD_LIST[p].common_words)} :
           p \in 1..Len(PROTECTED_WORD_LIST)}

\* variant: the test of exact equality left out, as in validate.check_protected
check_protected_tokens_only(name_) ==
  LET lowered_targets == {lower(target_word) : target_word \in Range(split(name_, "_"))}
      hits == {h \in ProtectedPairs :
                 token_match(PROTECTED_WORD_LIST[h[1]].common_words[h[2]], lowered_targets)}
  IN IF hits = {} THEN Status(PASS, None)
     ELSE Status(WARNING, Some(PROTECTED_WORD_LIST[first_pair(hits)[1]].protected_word))

\* variant: the tokens of the name in the outer loop, the table in the inner
check_protected_tokens_outer(name_) ==
  LET targets == split(name_, "_")
      word_at(h) == PROTECTED_WORD_LIST[h[1]].common_words[h[2]]
      exact == {h \in ProtectedPairs : word_at(h) = name_}
      matched == {t \in 1..Len(targets) :
                    \E h \in ProtectedPairs : lower(word_at(h)) = lower(targets[t])}
  IN IF exact # {}
     THEN Status(FAIL, Some(PROTECTED_WORD_LIST[first_pair(exact)[1]].protected_word))
     ELSE IF matched = {} THEN Status(PASS, None)
     ELSE LET t == CHOOSE i \in matched : \A j \in matched : i <= j
              h == first_pair({g \in ProtectedPairs :
                                 lower(word_at(g)) = lower(targets[t])})
          IN Status(WARNING, Some(PROTECTED_WORD_LIST[h[1]].protected_word))

\* the double loop of check_protected: the first synonym that equals the name
\* (FAIL) or one of its tokens (WARNING) returns
check_protected(name_) ==
  LET lowered_targets == {lower(target_word) : target_word \in Range(split(name_, "_"))}
      hits == {h \in ProtectedPairs :
                 LET word == PROTECTED_WORD_LIST[h[1]].common_words[h[2]]
                 IN word = name_ \/ token_match(word, lowered_targets)}
  IN IF hits = {} THEN Status(PASS, None)
     ELSE LET h == first_pair(hits)
              word == PROTECTED_WORD_LIST[h[1]].common_words[h[2]]
              protected_word == PROTECTED_WORD_LIST[h[1]].protected_word
          IN IF word = name_ THEN Status(FAIL, Some(protected_word))
             ELSE Status(WARNING, Some(protected_word))

RECURSIVE exceptions_scan(_, _)
exceptions_scan(real_string, k) ==
  IF k > Len(EXCEPTIONS) THEN Status(PASS, None)
  ELSE LET exc == EXCEPTIONS[k]
       IN IF contains(lower(real_string), lower(exc))
          THEN IF contains(real_string, exc) THEN Status(PASS, None)
               ELSE Status(FAIL, Some(exc))
          ELSE exceptions_scan(real_string, k + 1)

\* variant: the underscores are not removed before the search
check_exceptions_no_strip(name_) == exceptions_scan(name_, 1)

\* variant: the message is the token as it was found, in lower case
check_exceptions_lowered_message(name_) ==
  LET status == exceptions_scan(replace(name_, "_", ""), 1)
  IN IF status.state = FAIL THEN Status(FAIL, Some(lower(status.message[1])))
     ELSE status

check_exceptions(name_) == exceptions_scan(replace(name_, "_", ""), 1)

check_alphanumeric(name_) ==
  IF isalnum(replace(name_, "_", "")) THEN Status(PASS, None) ELSE Status(FAIL, None)

\* variant: the index of the first character taken one too far
alphabetical_start_raises_at_second(name_) == Len(name_) < 2

\* name[0] raises IndexError on the empty string
alphabetical_start_raises(name_) == name_ = ""

check_alphabetical_start(name_) ==
  IF char_isalpha(Head(name_)) THEN Status(PASS, None) ELSE Status(FAIL, None)

\* the removal loops of check_snake_case: actual_string after words[k..] have
\* been replaced by "", one after the other in list order (nothing is left to
\* replace in an empty string)
RECURSIVE remove_all(_, _, _)
remove_all(actual_string, words, k) ==
  IF k > Len(words) \/ actual_string = "" THEN actual_string
  ELSE remove_all(replace(actual_string, words[k], ""), words, k + 1)

\* variant: the test for two underscores in a row left out
check_snake_case_single_underscores(name_) ==
  IF startswith(name_, "_") THEN Status(FAIL, Some("Starts with underscore."))
  ELSE IF endswith(name_, "_") THEN Status(FAIL, Some("Ends with underscore."))
  ELSE LET actual_string == remove_all(remove_all(name_, valid_filters, 1), EXCEPTIONS, 1)
       IN IF actual_string = "" THEN Status(PASS, None)
          ELSE IF islower(actual_string)
               THEN IF ~status_truthy(check_alphanumeric(actual_string))
                    THEN Status(FAIL, None)
                    ELSE Status(PASS, None)
               ELSE Status(FAIL, None)

check_snake_case(name_) ==
  IF startswith(name_, "_") THEN Status(FAIL, Some("Starts with underscore."))
  ELSE IF endswith(name_, "_") THEN Status(FAIL, Some("Ends with underscore."))
  ELSE IF contains(name_, "__") THEN Status(FAIL, Some("Multiple underscores in a row."))
  ELSE LET actual_string == remove_all(remove_all(name_, valid_filters, 1), EXCEPTIONS, 1)
       IN IF actual_string = "" THEN Status(PASS, None)
          ELSE IF islower(actual_string)
               THEN IF ~status_truthy(check_alphanumeric(actual_string))
                    THEN Status(FAIL, None)
                    ELSE Status(PASS, None)
               ELSE Status(FAIL, None)

(***************************************************************************)
(* ColumnNameReport and validate_column_name.                              *)
(***************************************************************************)
Dimensions ==
  {"alpha_numeric", "starts_with_letter", "snake_case", "length", "no_decimals",
   "filter_name", "allowed_words", "no_exception_violation", "not_protected"}

\* variant: the length dimension left out of the conjunction
post_init_valid_without_length(r) ==
  /\ status_eq_state(r.alpha_numeric, PASS)
  /\ status_eq_state(r.starts_with_letter, PASS)
  /\ status_eq_state(r.snake_case, PASS)
  /\ status_eq_state(r.no_decimals, PASS)
  /\ status_eq_state(r.filter_name, PASS)
  /\ status_eq_state(r.allowed_words, PASS)
  /\ status_eq_state(r.no_exception_violation, PASS)
  /\ status_eq_state(r.not_protected, PASS)

\* ColumnNameReport.__post_init__
post_init_valid(r) ==
  /\ status_eq_state(r.alpha_numeric, PASS)
  /\ status_eq_state(r.starts_with_letter, PASS)
  /\ status_eq_state(r.snake_case, PASS)
  /\ status_eq_state(r.length, PASS)
  /\ status_eq_state(r.no_decimals, PASS)
  /\ status_eq_state(r.filter_name, PASS)
  /\ status_eq_state(r.allowed_words, PASS)
  /\ status_eq_state(r.no_exception_violation, PASS)
  /\ status_eq_state(r.not_protected, PASS)

ColumnNameReport(fields) == [fields EXCEPT !.valid = post_init_valid(fields)]

validate_column_name(name_) ==
  ColumnNameReport(
    [name |-> name_,
     alpha_numeric |-> check_alphanumeric(name_),
     starts_with_letter |-> check_alphabetical_start(name_),
     snake_case |-> check_snake_case(name_),
     length |-> check_length(name_),
     no_decimals |-> check_decimals(name_),
     filter_name |-> check_filter(name_),
     allowed_words |-> check_allowed(name_),
     no_exception_violation |-> check_exceptions(name_),
     not_protected |-> check_protected(name_),
     valid |-> FALSE])

(***************************************************************************)
(* Candidate names.                                                        *)
(***************************************************************************)
\* "_".join(valid_filter.split("_")[::-1])
reverse_tokens(s) == join(reversed(split(s, "_")), "_")

\* valid_filter.lower().replace("_", "")
lower_stripped(s) == replace(lower(s), "_", "")

FilterNames == Range(valid_filters)

Synonyms ==
  UNION {Range(PROTECTED_WORD_LIST[p].common_words) : p \in 1..Len(PROTECTED_WORD_LIST)}

\* the forms of a filter name that a column name may carry
FilterForms ==
  FilterNames
    \cup {lower_stripped(f) : f \in FilterNames}
    \cup {reverse_tokens(f) : f \in FilterNames}
    \cup {replace(f, "_", "") : f \in FilterNames}

PRE_AFFIXES == {"", "mag_", "flux_", "filter", "mag_err_"}

POST_AFFIXES == {"", "_2", "_test", "_total"}

AffixedNames ==
  {pre \o f \o post :
     pre \in {a \in PRE_AFFIXES : Len(a) <= MaxAffixLen},
     f \in FilterForms,
     post \in {a \in POST_AFFIXES : Len(a) <= MaxAffixLen}}

TOKENS ==
  {"", "ra", "deg", "j2000", "fred", "Fred", "flux", "somethin", "uberID", "uberid",
   "Mstar", "std", "a.b", "1x"}

RECURSIVE TokenLists(_)
TokenLists(n) ==
  IF n = 0 THEN {<<>>}
  ELSE {<<>>} \cup {<<t>> \o l : t \in TOKENS, l \in TokenLists(n - 1)}

TokenNames == {join(l, "_") : l \in TokenLists(MaxTokens) \ {<<>>}}

SampleNames ==
  {"fred_flux", "something", "xyz_bob", "uberID_uberid", "UberID", "uber_ID",
   "ra_j2000", "dec_j2000", "flux_density_mjy", "fuvGALEX", "filterFUVgalex",
   "filtW1WISE", "bandW1Wise", "filterBand7Alma", "mag_err_VISTA_Z",
   "my_custom_filter", "column.with.dots", "123abc", "abc.def", "ra_deg_j2000",
   "u_SDSS_r_SDSS", "12_34", "fre_thing", "xyz_bo", "uber_id",
   "flux_density_mjy_corrected_v2", "FUV_GALEX_and_a_long_tail_of_words",
   "ra__dec", "FUV_GALEX__uberID", "_FUV_GALEX", "u_SDSS_", "Ra__Dec", "a__1.5",
   "flux_fuvgalex_total", "FUV_GALAX", "galex", "my-variable-name", "a.b_c",
   "FUV_GALEX.x", "uberID_2", "Mstar_SFR", "sfr_mstar", "somethin_else"}

\* names of every length up to MaxNameLen: the prefixes of one long name
LONG_NAME == "stellar_mass_estimate_from_the_sed_fit_with_dust_correction_v2"

LengthNames == {SubSeq(LONG_NAME, 1, n) : n \in 1..MaxNameLen}

\* the first character of s in upper case (é has no upper-case form here)
first_upper(s) ==
  LET hits == {c \in UpperChars : ToLower[c] = Head(s)}
  IN IF s = "" \/ hits = {} THEN s ELSE (CHOOSE c \in hits : TRUE) \o Tail(s)

\* spellings of a filter name that start with an upper-case character
UpperForms ==
  {X \in FilterNames
          \cup {replace(f, "_", "") : f \in FilterNames}
          \cup {first_upper(lower_stripped(f)) : f \in FilterNames} :
     char_isupper(Head(X))}

\* a filler prefix put in front of a spelling of a filter name
PrefixedNames ==
  {PREFIXES[k] \o X : k \in 1..Len(PREFIXES), X \in UpperForms}
    \cup {PREFIXES[k] \o lower_stripped(f) : k \in 1..Len(PREFIXES), f \in FilterNames}

Names ==
  AffixedNames \cup Synonyms \cup TokenNames \cup SampleNames \cup LengthNames
    \cup PrefixedNames

(***************************************************************************)
(* The state machine: one candidate name, validated by validate_column_name*)
(* and, independently, by validate_filter_name.                            *)
(***************************************************************************)
Init ==
  /\ name \in Names
  /\ col_pc = "idle"
  /\ report = None
  /\ flt_pc = "idle"
  /\ filter_result = None
  /\ table = <<>>
  /\ data_pc = "idle"
  /\ data_report = None
  /\ columns = <<>>
  /\ call = NoCall

\* validate_column_name(name): the report, or the IndexError of name[0]
ValidateColumnName ==
  /\ col_pc = "idle"
  /\ IF alphabetical_start_raises(name)
     THEN col_pc' = "raised" /\ report' = report
     ELSE col_pc' = "returned" /\ report' = validate_column_name(name)
  /\ UNCHANGED <<name, flt_pc, filter_result>>
  /\ UNCHANGED <<data_vars, columns_vars>>

\* validate_filter_name(name)
ValidateFilterName ==
  /\ flt_pc = "idle"
  /\ flt_pc' = "returned"
  /\ filter_result' = validate_filter_name(name)
  /\ UNCHANGED <<name, col_pc, report>>
  /\ UNCHANGED <<data_vars, columns_vars>>

Next == ValidateColumnName \/ ValidateFilterName

Spec == Init /\ [][Next]_vars

TypeOK ==
  /\ col_pc \in {"idle", "returned", "raised"}
  /\ flt_pc \in {"idle", "returned"}
  /\ col_pc = "returned" => report.valid \in BOOLEAN

(***************************************************************************)
(* data_validator: a table is a sequence of columns, a column a name and   *)
(* the sequence of its values.                                             *)
(***************************************************************************)
LEFT == "left"

RIGHT == "right"

BOTH == "both"

NONE == "none"

ClosedInterval == {LEFT, RIGHT, BOTH, NONE}

\* polars Expr.is_between(lower_bound, upper_bound, closed) on one value
is_between(value, lower_bound, upper_bound, closed) ==
  CASE closed = LEFT -> lower_bound <= value /\ value < upper_bound
    [] closed = RIGHT -> lower_bound < value /\ value <= upper_bound
    [] closed = BOTH -> lower_bound <= value /\ value <= upper_bound
    [] closed = NONE -> lower_bound < value /\ value < upper_bound

\* pl.col(column_name) of the data frame
col(data_frame, column_name) ==
  data_frame[CHOOSE i \in 1..Len(data_frame) : data_frame[i].name = column_name]

check_column_values(data_frame, column_name, min, max, include) ==
  \A value \in Range(col(data_frame, column_name).values) :
    is_between(value, min, max, include)

\* the first column with a token equal to the root name, or None
_find_column(standard_root_name, data_frame) ==
  LET hits == {i \in 1..Len(data_frame) :
                 standard_root_name \in Range(split(data_frame[i].name, "_"))}
  IN IF hits = {} THEN None
     ELSE Some(data_frame[CHOOSE i \in hits : \A j \in hits : i <= j].name)

validate_ra(data_frame, ra_column_name) ==
  LET found == IF ra_column_name = None THEN _find_column("ra", data_frame)
               ELSE ra_column_name
      valid == check_column_values(data_frame, found[1], 0, 360, RIGHT)
  IN IF valid THEN Status(PASS, found) ELSE Status(FAIL, found)

validate_dec(data_frame, dec_column_name) ==
  LET found == IF dec_column_name = None THEN _find_column("dec", data_frame)
               ELSE dec_column_name
      valid == check_column_values(data_frame, found[1], -90, 90, BOTH)
  IN IF valid THEN Status(PASS, found) ELSE Status(FAIL, found)

\* the names appended to bad_columns while the loop is at columns k..
RECURSIVE bad_columns_from(_, _)
bad_columns_from(data_frame, k) ==
  IF k > Len(data_frame) THEN <<>>
  ELSE (IF -999 \in Range(data_frame[k].values) THEN <<data_frame[k].name>> ELSE <<>>)
       \o bad_columns_from(data_frame, k + 1)

\* variant: the loop left at the first column that holds -999
check_no_minus_999_first_only(data_frame) ==
  LET bad_columns == bad_columns_from(data_frame, 1)
  IN IF Len(bad_columns) = 0 THEN Status(PASS, None)
     ELSE Status(FAIL, Some(bad_columns[1]))

check_no_minus_999(data_frame) ==
  LET bad_columns == bad_columns_from(data_frame, 1)
  IN IF Len(bad_columns) = 0 THEN Status(PASS, None)
     ELSE Status(FAIL, Some(join(bad_columns, ";;;")))

\* DataValueReport with the valid flag of __post_init__
DataValueReport(table_name, valid_ra, valid_dec, no_999) ==
  [table_name |-> table_name, valid_ra |-> valid_ra, valid_dec |-> valid_dec,
   no_999 |-> no_999,
   valid |-> /\ valid_ra.state = PASS
             /\ valid_dec.state = PASS
             /\ no_999.state = PASS]

validate_table(df, table_name) ==
  DataValueReport(table_name, validate_ra(df, None), validate_dec(df, None),
                  check_no_minus_999(df))

(***************************************************************************)
(* The tables: the columns of a small catalogue in every order, each with  *)
(* up to MaxRows values read in nondecreasing order.                       *)
(***************************************************************************)
VALUES == {-999, 0, 10, 360}

COLUMN_NAMES == {"ra_j2000", "dec_j2000", "flux_density_mjy"}

TABLE_NAME == "catalogue"

ColumnValues(n) ==
  {v \in [1..n -> VALUES] : \A i \in 1..(n - 1) : v[i] <= v[i + 1]}

\* the orders of the column sets that hold both coordinates
ColumnOrders ==
  {o \in UNION {[1..n -> COLUMN_NAMES] : n \in 2..Cardinality(COLUMN_NAMES)} :
     /\ \A i, j \in 1..Len(o) : i # j => o[i] # o[j]
     /\ _find_column("ra", [i \in 1..Len(o) |-> [name |-> o[i]]]) # None
     /\ _find_column("dec", [i \in 1..Len(o) |-> [name |-> o[i]]]) # None}

Tables ==
  UNION {{[i \in 1..Len(o) |-> [name |-> o[i], values |-> v[i]]] :
            v \in [1..Len(o) -> ColumnValues(n)]} :
         o \in ColumnOrders, n \in 1..MaxRows}

InitData ==
  /\ name = "ra_j2000"
  /\ col_pc = "idle"
  /\ report = None
  /\ flt_pc = "idle"
  /\ filter_result = None
  /\ table \in Tables
  /\ data_pc = "idle"
  /\ data_report = None
  /\ columns = <<>>
  /\ call = NoCall

\* validate_table(df, table_name)
ValidateTable ==
  /\ data_pc = "idle"
  /\ data_pc' = "returned"
  /\ data_report' = validate_table(table, TABLE_NAME)
  /\ UNCHANGED <<table, name_vars, columns_vars>>

NextData == ValidateTable

SpecData == InitData /\ [][NextData]_vars

(***************************************************************************)
(* metadata: the Columns collection, a dict from column name to            *)
(* ColumnMetaData.  A method is an operator from the dict and the          *)
(* arguments to the dict afterwards and the way the call ended: returned   *)
(* (value is the 1-tuple of the returned object, <<>> for no return value),*)
(* or the exception raised and its text.                                   *)
(***************************************************************************)
MinMax(min, max) == [min |-> min, max |-> max]

ColumnMetaData(name_, ucd, data_type, qc, unit, info) ==
  [name |-> name_, ucd |-> ucd, data_type |-> data_type, qc |-> qc,
   unit |-> unit, info |-> info]

Outcome(self, outcome, value, message) ==
  [columns |-> self, outcome |-> outcome, value |-> value, message |-> message]

no_column_message(column_name) ==
  "No column with the name '" \o column_name \o "' found."

set_info(self, column_name, info) ==
  IF column_name \in DOMAIN self
  THEN Outcome([self EXCEPT ![column_name].info = Some(info)], "returned", <<>>, "")
  ELSE Outcome(self, "ValueError", <<>>, no_column_message(column_name))

get_info(self, column_name) ==
  IF column_name \in DOMAIN self
  THEN Outcome(self, "returned", <<self[column_name].info>>, "")
  ELSE Outcome(self, "ValueError", <<>>, no_column_message(column_name))

set_unit(self, column_name, unit) ==
  IF column_name \in DOMAIN self
  THEN Outcome([self EXCEPT ![column_name].unit = Some(unit)], "returned", <<>>, "")
  ELSE Outcome(self, "ValueError", <<>>, no_column_message(column_name))

get_unit(self, column_name) ==
  IF column_name \in DOMAIN self
  THEN Outcome(self, "returned", <<self[column_name].unit>>, "")
  ELSE Outcome(self, "ValueError", <<>>, no_column_message(column_name))

set_ucd(self, column_name, ucd) ==
  IF column_name \in DOMAIN self
  THEN Outcome([self EXCEPT ![column_name].ucd = Some(ucd)], "returned", <<>>, "")
  ELSE Outcome(self, "ValueError", <<>>, no_column_message(column_name))

\* variant: the unit handed back, as the docstring of get_ucd has it
get_ucd_returns_unit(self, column_name) ==
  IF column_name \in DOMAIN self
  THEN Outcome(self, "returned", <<self[column_name].unit>>, "")
  ELSE Outcome(self, "ValueError", <<>>, no_column_message(column_name))

get_ucd(self, column_name) ==
  IF column_name \in DOMAIN self
  THEN Outcome(self, "returned", <<self[column_name].ucd>>, "")
  ELSE Outcome(self, "ValueError", <<>>, no_column_message(column_name))

\* variant: the data_type test moved inside the try block
set_minmax_lookup_in_try(self, column_name, min, max) ==
  IF column_name \notin DOMAIN self
  THEN Outcome(self, "ValueError", <<>>, no_column_message(column_name))
  ELSE IF self[column_name].data_type = "string"
  THEN Outcome(self, "ValueError", <<>>,
               "Cannot set the min max of a 'string' type column: '"
                 \o column_name \o "'")
  ELSE Outcome([self EXCEPT ![column_name].qc = Some(MinMax(min, max))],
               "returned", <<>>, "")

\* the data_type test reads self.columns[column_name] outside the try block:
\* the KeyError of a missing column is not turned into a ValueError
set_minmax(self, column_name, min, max) ==
  IF column_name \notin DOMAIN self
  THEN Outcome(self, "KeyError", <<>>, column_name)
  ELSE IF self[column_name].data_type = "string"
  THEN Outcome(self, "ValueError", <<>>,
               "Cannot set the min max of a 'string' type column: '"
                 \o column_name \o "'")
  ELSE Outcome([self EXCEPT ![column_name].qc = Some(MinMax(min, max))],
               "returned", <<>>, "")

get_minmax(self, column_name) ==
  IF column_name \in DOMAIN self
  THEN Outcome(self, "returned", <<self[column_name].qc>>, "")
  ELSE Outcome(self, "ValueError", <<>>, no_column_message(column_name))

(***************************************************************************)
(* The collections and the arguments of the calls.                         *)
(***************************************************************************)
ColumnPool ==
  {ColumnMetaData("ra_j2000", Some("pos.eq.ra;meta.main"), "float64",
                  Some(MinMax(0, 360)), Some("deg"), None),
   ColumnMetaData("object_id", Some("meta.id;meta.main"), "string", None, None, None),
   ColumnMetaData("count", Some("meta.number"), "int64", None, None, None)}

\* Columns(columns = ...): the dict keyed by the column names
ColumnsOf(metadata) ==
  [column_name \in {column.name : column \in metadata} |->
     CHOOSE column \in metadata : column.name = column_name]

COLUMN_ARGS == {column.name : column \in ColumnPool} \cup {"nonexistent_column"}

INFOS == {"Right ascension"}

UNITS == {"mag"}

UCDS == {"phot.flux"}

MINMAXES == {<<100, 500>>}

InitColumns ==
  /\ name = "ra_j2000"
  /\ col_pc = "idle"
  /\ report = None
  /\ flt_pc = "idle"
  /\ filter_result = None
  /\ table = <<>>
  /\ data_pc = "idle"
  /\ data_report = None
  /\ columns \in {ColumnsOf(metadata) : metadata \in SUBSET ColumnPool}
  /\ call = NoCall

\* the state after a call that ended as the outcome says
Called(op, column_name, args, outcome) ==
  /\ columns' = outcome.columns
  /\ call' = Call(op, column_name, args, outcome.outcome, outcome.value, outcome.message)
  /\ UNCHANGED <<name_vars, data_vars>>

SetInfo ==
  \E column_name \in COLUMN_ARGS, info \in INFOS :
    Called("set_info", column_name, <<info>>, set_info(columns, column_name, info))

GetInfo ==
  \E column_name \in COLUMN_ARGS :
    Called("get_info", column_name, <<>>, get_info(columns, column_name))

SetUnit ==
  \E column_name \in COLUMN_ARGS, unit \in UNITS :
    Called("set_unit", column_name, <<unit>>, set_unit(columns, column_name, unit))

GetUnit ==
  \E column_name \in COLUMN_ARGS :
    Called("get_unit", column_name, <<>>, get_unit(columns, column_name))

SetUcd ==
  \E column_name \in COLUMN_ARGS, ucd \in UCDS :
    Called("set_ucd", column_name, <<ucd>>, set_ucd(columns, column_name, ucd))

GetUcd ==
  \E column_name \in COLUMN_ARGS :
    Called("get_ucd", column_name, <<>>, get_ucd(columns, column_name))

SetMinMax ==
  \E column_name \in COLUMN_ARGS, minmax \in MINMAXES :
    Called("set_minmax", column_name, minmax,
           set_minmax(columns, column_name, minmax[1], minmax[2]))

GetMinMax ==
  \E column_name \in COLUMN_ARGS :
    Called("get_minmax", column_name, <<>>, get_minmax(columns, column_name))

NextColumns ==
  \/ SetInfo
  \/ GetInfo
  \/ SetUnit
  \/ GetUnit
  \/ SetUcd
  \/ GetUcd
  \/ SetMinMax
  \/ GetMinMax

SpecColumns == InitColumns /\ [][NextColumns]_vars

(***************************************************************************)
(* Properties.                                                             *)
(***************************************************************************)
Returned == col_pc = "returned"

Filtered == flt_pc = "returned"

\* C1: in every report built by validate_column_name, valid is True exactly
\* when each of the nine dimension statuses has state PASS.
C1_ValidIffAllPass ==
  Returned => (report.valid <=> \A d \in Dimensions : report[d].state = PASS)

\* a report whose only non-PASS dimension is a WARNING, and which is not valid
C1_Witness ==
  /\ Returned
  /\ report.length.state = WARNING
  /\ \A d \in Dimensions \ {"length"} : report[d].state = PASS
  /\ ~report.valid

\* C2 (as claimed): every name that contains a canonical filter name verbatim
\* as a substring gets (True, None) from the filter check.
C2_ExactContainmentPasses ==
  (Filtered /\ \E f \in FilterNames : contains(name, f))
    => filter_result = <<TRUE, None>>

\* C3: the filter check applied to a canonical filter name itself returns
\* (True, None): PASS with no suggestion.
C3_CanonicalNamePasses ==
  (Filtered /\ name \in FilterNames) => filter_result = <<TRUE, None>>

C3_Witness == Filtered /\ name = "Band7_ALMA" /\ filter_result[1]

\* C4: when the whole column name is a canonical filter name, each of the
\* nine checks is PASS and the report is valid.
C4_CanonicalNameValid ==
  (Returned /\ name \in FilterNames)
    => /\ \A d \in Dimensions : report[d].state = PASS
       /\ report.filter_name = Status(PASS, None)
       /\ report.valid

C4_Witness == Returned /\ name = "FUV_GALEX" /\ report.valid

\* C5: for every canonical filter name f, the filter check applied to f
\* lower-cased with its underscores removed returns (False, f).
C5_LowerStrippedSuggestsItself ==
  Filtered =>
    \A f \in FilterNames :
      name = lower_stripped(f) => filter_result = <<FALSE, Some(f)>>

C5_Witness ==
  Filtered /\ name = "band7alma" /\ filter_result = <<FALSE, Some("Band7_ALMA")>>

\* C6: for every canonical filter name f of at least two tokens, the filter
\* check applied to f with its tokens reversed returns (False, f).
C6_ReversedTokensSuggestsItself ==
  Filtered =>
    \A f \in FilterNames :
      (Len(split(f, "_")) >= 2 /\ name = reverse_tokens(f))
        => filter_result = <<FALSE, Some(f)>>

C6_Witness == Filtered /\ name = "SDSS_u" /\ filter_result = <<FALSE, Some("u_SDSS")>>

\* C7: when some banned word is a literal substring of the name, check_allowed
\* returns FAIL with the first such banned word in list order, whatever the
\* fuzzy comparison of the tokens would give.
C7_LiteralBannedWordFails ==
  Returned =>
    \A k \in 1..Len(NOT_ALLOWED) :
      (/\ contains(name, NOT_ALLOWED[k])
       /\ \A j \in 1..(k - 1) : ~contains(name, NOT_ALLOWED[j]))
        => report.allowed_words = Status(FAIL, Some(NOT_ALLOWED[k]))

\* a name with the literal banned word thing whose token fre is close to the
\* earlier banned word fred (ratio > 80)
C7_Witness ==
  /\ Returned
  /\ name = "fre_thing"
  /\ ratio("fred", "fre") > 80
  /\ report.allowed_words = Status(FAIL, Some("thing"))

\* the protected tokens that list the word among their synonyms
ProtectedTokensOf(word) ==
  {PROTECTED_WORD_LIST[p].protected_word :
     p \in {q \in 1..Len(PROTECTED_WORD_LIST) :
              word \in Range(PROTECTED_WORD_LIST[q].common_words)}}

\* C8 (as claimed): every name equal to a synonym of a protected token gets
\* FAIL from check_protected, with that protected token as message.
C8_ExactSynonymFails ==
  (Returned /\ name \in Synonyms)
    => /\ report.not_protected.state = FAIL
       /\ report.not_protected.message \in {Some(t) : t \in ProtectedTokensOf(name)}

\* C9 (as claimed): for the name ra_deg the protected-word check returns
\* WARNING with message ra.
C9_RaDegWarning ==
  (Returned /\ name = "ra_deg") => report.not_protected = Status(WARNING, Some("ra"))

\* C9 (amended): for the name ra_deg, which equals a synonym of the protected
\* group ra, the protected-word check returns FAIL with message ra.
C9_RaDegFail ==
  (Returned /\ name = "ra_deg") => report.not_protected = Status(FAIL, Some("ra"))

C9_Witness == Returned /\ name = "ra_deg" /\ report.not_protected.state = FAIL

\* C10: if the lower-cased exception token occurs in the underscore-stripped,
\* lower-cased name, check_exceptions returns PASS exactly when the
\* exact-cased token occurs in the underscore-stripped name and otherwise
\* FAIL with the token as message; if it does not occur the result is PASS.
C10_ExceptionCasing ==
  Returned =>
    LET real_string == replace(name, "_", "")
        exc == EXCEPTIONS[1]
    IN IF contains(lower(real_string), lower(exc)) /\ ~contains(real_string, exc)
       THEN report.no_exception_violation = Status(FAIL, Some(exc))
       ELSE report.no_exception_violation = Status(PASS, None)

\* the token uberID split and lower-cased in the name: a casing violation
C10_Witness ==
  /\ Returned
  /\ name = "uber_id"
  /\ report.no_exception_violation = Status(FAIL, Some("uberID"))
StructurallyBroken(name_) ==
  startswith(name_, "_") \/ endswith(name_, "_") \/ contains(name_, "__")

\* C12: check_snake_case gives FAIL to every name that starts with an
\* underscore, ends with one or has two in a row, whatever the rest of the
\* name is; ra_j2000 gets PASS.
C12_SnakeCaseStructure ==
  Returned =>
    /\ StructurallyBroken(name) => report.snake_case.state = FAIL
    /\ name = "ra_j2000" => report.snake_case.state = PASS

\* a lower-case name whose only fault is the doubled underscore
C12_Witness ==
  /\ Returned
  /\ name = "ra__dec"
  /\ report.snake_case.state = FAIL

\* C13: for every non-empty name validate_column_name raises nothing and
\* returns a report in which each of the nine dimensions carries a status;
\* no check is skipped because an earlier one failed.
C13_TotalOnNonEmpty ==
  (col_pc # "idle" /\ name # "") =>
    /\ col_pc = "returned"
    /\ \A d \in Dimensions : report[d].state \in State

\* a report with two early FAILs and every later dimension evaluated
C13_Witness ==
  /\ Returned
  /\ report.alpha_numeric.state = FAIL
  /\ report.starts_with_letter.state = FAIL
  /\ \A d \in Dimensions : report[d].state \in State

DataReturned == data_pc = "returned"

\* the values of the column validate_ra takes for the RA column
RaValues == Range(col(table, _find_column("ra", table)[1]).values)

\* C15 (as claimed): validate_ra gives PASS exactly when every value of the
\* RA column is in [0, 360), 0 accepted and 360 rejected, FAIL otherwise, and
\* the message is the RA column name in both cases.
C15_RaHalfOpenFromZero ==
  DataReturned =>
    /\ data_report.valid_ra.state =
         IF \A value \in RaValues : 0 <= value /\ value < 360 THEN PASS ELSE FAIL
    /\ data_report.valid_ra.message = _find_column("ra", table)

\* the names of the columns that hold -999, in table column order
OffendingColumns ==
  LET offending == SelectSeq(table, LAMBDA column : \E i \in 1..Len(column.values) :
                                                      column.values[i] = -999)
  IN [i \in 1..Len(offending) |-> offending[i].name]

\* C16: check_no_minus_999 gives FAIL exactly when some column holds -999;
\* its message then names the offending columns, all of them and no other,
\* in table column order and joined by ';;;'; otherwise it gives PASS with no
\* message.  The table report is valid only if the RA, Dec and sentinel
\* statuses are all PASS.
C16_SentinelColumns ==
  DataReturned =>
    /\ data_report.no_999.state = FAIL <=> OffendingColumns # <<>>
    /\ OffendingColumns # <<>> =>
         /\ data_report.no_999.message # None
         /\ split(data_report.no_999.message[1], ";;;") = OffendingColumns
    /\ OffendingColumns = <<>> => data_report.no_999 = Status(PASS, None)
    /\ data_report.valid =>
         /\ data_report.valid_ra.state = PASS
         /\ data_report.valid_dec.state = PASS
         /\ data_report.no_999.state = PASS

\* two offending columns around a clean one, named in table order
C16_Witness ==
  /\ DataReturned
  /\ Len(table) = 3
  /\ Len(OffendingColumns) = 2
  /\ -999 \notin Range(table[2].values)
  /\ data_report.no_999 = Status(FAIL, Some(table[1].name \o ";;;" \o table[3].name))

Setters == {"set_info", "set_unit", "set_ucd"}

Getters == {"get_info", "get_unit", "get_ucd", "get_minmax"}

\* the field a method addresses
FieldOf(op) ==
  CASE op \in {"set_info", "get_info"} -> "info"
    [] op \in {"set_unit", "get_unit"} -> "unit"
    [] op \in {"set_ucd", "get_ucd"} -> "ucd"
    [] op \in {"set_minmax", "get_minmax"} -> "qc"

Fields == {"name", "ucd", "data_type", "qc", "unit", "info"}

\* the step changed, of the whole collection, at most one field of one column
OnlyFieldChanged(column_name, field) ==
  /\ DOMAIN columns' = DOMAIN columns
  /\ \A other \in DOMAIN columns \ {column_name} : columns'[other] = columns[other]
  /\ \A other \in Fields \ {field} :
       columns'[column_name][other] = columns[column_name][other]

NoVerbatimFilter == \A f \in FilterNames : ~contains(name, f)

\* the canonical names whose lower-cased, underscore-stripped form is a
\* substring of the normalized name
FormatMatches ==
  {f \in FilterNames : contains(normalize(name), lower_stripped(f))}

\* C19 (as claimed): every name in which no canonical filter name appears
\* verbatim, but whose normalized form contains the lower-cased,
\* underscore-stripped form of a canonical name, wherever it stands and
\* however long the text around it, gets FAIL with that canonical name as
\* suggestion.
C19_FormatViolationAnywhere ==
  (Filtered /\ NoVerbatimFilter /\ FormatMatches # {})
    => \E f \in FormatMatches : filter_result = <<FALSE, Some(f)>>

\* the canonical names of two or more tokens whose reversed-token form,
\* lower-cased and underscore-stripped, is a substring of the normalized name
ReversedMatches ==
  {f \in FilterNames :
     /\ Len(split(f, "_")) >= 2
     /\ contains(normalize(name), lower_stripped(reverse_tokens(f)))}

\* C20 (as claimed): every name whose normalized form contains the
\* lower-cased, underscore-stripped reversed-token form of a canonical filter
\* name, compound names such as mag_err_VISTA_Z included, gets FAIL with the
\* canonical name as suggestion (after step 1: no canonical name appears
\* verbatim in it).
C20_TokenOrderViolationAnywhere ==
  (Filtered /\ NoVerbatimFilter /\ ReversedMatches # {})
    => \E f \in ReversedMatches : filter_result = <<FALSE, Some(f)>>

\* what is left of the name after its first k characters
After(k) == SubSeq(name, k + 1, Len(name))

\* no filler prefix of the name is followed by an upper-case character
NoPrefixBeforeUpper ==
  \A k \in 1..Len(PREFIXES) :
    ~ /\ startswith(lower(name), PREFIXES[k])
      /\ After(Len(PREFIXES[k])) # ""
      /\ char_isupper(Head(After(Len(PREFIXES[k]))))

\* C21: for every canonical filter name f and every X that starts with an
\* upper-case character and has the normalized form of f, the names
\* 'filter'+X, 'filt'+X and 'band'+X get FAIL with suggestion f (one prefix
\* is stripped, also when X itself begins with 'Band'); a name in which no
\* prefix is followed by an upper-case character is classified as it stands.
C21_PrefixedMisuse ==
  Filtered =>
    /\ \A f \in FilterNames, k \in 1..Len(PREFIXES) :
         ( /\ startswith(name, PREFIXES[k])
           /\ After(Len(PREFIXES[k])) # ""
           /\ char_isupper(Head(After(Len(PREFIXES[k]))))
           /\ normalize(After(Len(PREFIXES[k]))) = normalize(f) )
         => filter_result = <<FALSE, Some(f)>>
    /\ (NoPrefixBeforeUpper /\ name \notin FilterNames)
         => filter_result = check_each_filter(name)

\* 'band' stripped once from a name whose filter itself begins with 'Band'
C21_Witness ==
  /\ Filtered
  /\ name = "bandBandXVLA"
  /\ filter_result = <<FALSE, Some("BandX_VLA")>>

\* C22 (as claimed): for every canonical filter name f, the name made from f
\* by deleting its underscores and keeping its case gets FAIL with suggestion
\* f, also when f begins with 'Band'.
C22_MissingUnderscoreCaught ==
  Filtered =>
    \A f \in FilterNames :
      (contains(f, "_") /\ name = replace(f, "_", ""))
        => filter_result = <<FALSE, Some(f)>>

\* C23 (as claimed): when no containment rule applies, a similarity above 80
\* of the normalized name to the nearest canonical name or its reversed-token
\* form (both lower-cased and underscore-stripped) gives FAIL, a similarity
\* above 60 and at most 80 gives a WARNING, a similarity of at most 60 gives
\* PASS; FAIL and WARNING carry the nearest canonical name as suggestion.
C23_FuzzyThresholds ==
  (Filtered /\ NoVerbatimFilter /\ FormatMatches = {} /\ ReversedMatches = {})
    => LET similarity(f) ==
             Max(ratio(normalize(name), lower_stripped(f)),
                 ratio(normalize(name), lower_stripped(reverse_tokens(f))))
           nearest == {f \in FilterNames :
                         \A g \in FilterNames : similarity(g) <= similarity(f)}
           best == similarity(CHOOSE f \in nearest : TRUE)
       IN IF best > 80
          THEN filter_result[1] = FALSE /\ filter_result[2] \in {Some(f) : f \in nearest}
          ELSE IF best > 60
          THEN filter_result[2] \in {Some(f) : f \in nearest}
          ELSE filter_result = <<TRUE, None>>

\* C24 (as claimed): for every name in which no banned word is a literal
\* substring, check_allowed gives FAIL if some pair (banned word, lower-cased
\* token of the name) has a similarity ratio above 80, otherwise WARNING if
\* some pair has a ratio above 50, otherwise PASS: a ratio in (50, 80] for
\* one pair never hides a ratio above 80 for another.
C24_FuzzySeverity ==
  (Returned /\ \A k \in 1..Len(NOT_ALLOWED) : ~contains(name, NOT_ALLOWED[k]))
    => LET ratios == {ratio(NOT_ALLOWED[k], lower(word)) :
                        k \in 1..Len(NOT_ALLOWED), word \in Range(split(name, "_"))}
       IN report.allowed_words.state =
            IF \E r \in ratios : r > 80 THEN FAIL
            ELSE IF \E r \in ratios : r > 50 THEN WARNING
            ELSE PASS

\* the entries of the protected-word table with a synonym that equals, case
\* aside, some underscore-delimited token of the name
MatchedEntries ==
  LET tokens == {lower(target_word) : target_word \in Range(split(name, "_"))}
  IN {p \in 1..Len(PROTECTED_WORD_LIST) :
        \E w \in 1..Len(PROTECTED_WORD_LIST[p].common_words) :
          lower(PROTECTED_WORD_LIST[p].common_words[w]) \in tokens}

\* C25: for every name that is not itself a synonym, check_protected gives
\* WARNING when some token of the name equals some synonym case-insensitively,
\* with the canonical token of the first matching entry in table order as
\* message, and PASS when no token matches any synonym.
C25_TokenLevelWarning ==
  (Returned /\ name \notin Synonyms)
    => IF MatchedEntries = {}
       THEN report.not_protected = Status(PASS, None)
       ELSE LET p == CHOOSE i \in MatchedEntries : \A j \in MatchedEntries : i <= j
            IN report.not_protected =
                 Status(WARNING, Some(PROTECTED_WORD_LIST[p].protected_word))

\* two entries match; the one earlier in the table wins over the earlier token
C25_Witness ==
  /\ Returned
  /\ name = "Mstar_std"
  /\ Cardinality(MatchedEntries) = 2
  /\ report.not_protected = Status(WARNING, Some("err"))

\* what check_snake_case has left after removing the filter names and then
\* the exception tokens, each in list order
Remainder == remove_all(remove_all(name, valid_filters, 1), EXCEPTIONS, 1)

\* C26 (as claimed): for every name with no leading, trailing or doubled
\* underscore, check_snake_case gives PASS exactly when what is left after
\* removing the filter names and the exception tokens is empty or consists
\* only of lower-case letters, digits and underscores (so u_SDSS_r_SDSS,
\* FUV_GALEX_2 and 12_34 get PASS), and FAIL otherwise.
C26_SnakeCaseRemainder ==
  (Returned /\ ~StructurallyBroken(name))
    => report.snake_case.state =
         IF \A i \in 1..Len(Remainder) :
              CharAt(Remainder, i) \in LowerChars \cup DigitChars \cup {"_"}
         THEN PASS ELSE FAIL

\* C27 (as claimed): validate_column_name on the empty string raises
\* nothing and returns a report whose starts-with-letter status is FAIL and
\* whose valid flag is False; the filter check on the empty string gives
\* PASS with no suggestion.
C27_EmptyNameReport ==
  /\ (col_pc # "idle" /\ name = "") =>
       /\ col_pc = "returned"
       /\ report.starts_with_letter.state = FAIL
       /\ ~report.valid
  /\ (Filtered /\ name = "") => filter_result = <<TRUE, None>>

\* PASS with no message, or a non-PASS status whose message is in the lexicon
MessageFrom(status, lexicon) ==
  \/ status = Status(PASS, None)
  \/ /\ status.state \in {WARNING, FAIL}
     /\ status.message \in {Some(entry) : entry \in lexicon}

\* C28: the banned-word, protected-word, exception-casing and filter checks
\* each give either PASS with no message or a non-PASS status whose message
\* is an entry of their lexicon: a banned word, a canonical protected token,
\* an exception token, a canonical filter name.
C28_MessageFromLexicon ==
  Returned =>
    /\ MessageFrom(report.allowed_words, Range(NOT_ALLOWED))
    /\ MessageFrom(report.not_protected,
                   {PROTECTED_WORD_LIST[p].protected_word :
                      p \in 1..Len(PROTECTED_WORD_LIST)})
    /\ MessageFrom(report.no_exception_violation, Range(EXCEPTIONS))
    /\ MessageFrom(report.filter_name, FilterNames)

\* a banned word and a mis-cased exception token in one name
C28_Witness ==
  /\ Returned
  /\ report.allowed_words = Status(FAIL, Some("fred"))
  /\ report.no_exception_violation = Status(FAIL, Some("uberID"))

C30_UnderscoreSynonymsExactOnly ==
  Returned =>
    LET tokens == {lower(target_word) : target_word \in Range(split(name, "_"))}
        entries(matches(_)) ==
          {PROTECTED_WORD_LIST[p].protected_word :
             p \in {q \in 1..Len(PROTECTED_WORD_LIST) :
                      \E w \in 1..Len(PROTECTED_WORD_LIST[q].common_words) :
                        matches(PROTECTED_WORD_LIST[q].common_words[w])}}
        equal(word) == word = name
        plain_token(word) == ~contains(word, "_") /\ lower(word) \in tokens
    IN /\ report.not_protected.state = FAIL
            => report.not_protected.message \in {Some(e) : e \in entries(equal)}
       /\ report.not_protected.state = WARNING
            => report.not_protected.message \in {Some(e) : e \in entries(plain_token)}

\* the tokens of ra_deg in a longer name: no status on account of ra_deg
C30_Witness ==
  /\ Returned
  /\ name = "ra_deg_j2000"
  /\ report.not_protected = Status(PASS, None)

====
